---- MODULE Spec2Model ----
(***************************************************************************)
(* Model of src/Cluster.py: the TreeCluster class, the helper functions    *)
(* and the clusterGraph driver, with Python's run-time behaviour kept      *)
(* (a call either returns a value or raises an exception).                 *)
(*                                                                         *)
(* Python values are records tagged by "kind":                             *)
(*   None            [kind |-> "none"]                                     *)
(*   ChargeStation   [kind |-> "station", id, latitude, longitude]         *)
(*   list            [kind |-> "list",  items |-> <<...>>]                 *)
(*   tuple           [kind |-> "tuple", items |-> <<...>>]                 *)
(*   TreeCluster     [kind |-> "tree", centroid, complete, subcluster]     *)
(* The outcome of a call is Return(v) or Raise(exceptionName).             *)
(***************************************************************************)
EXTENDS Integers, Sequences, FiniteSets

VARIABLES
    chargers,   \* the caller's station list (a Python list value)
    distance,   \* the caller's threshold in km
    graph,      \* the ChargeNetwork: [stations, edges]
    tree,       \* the TreeCluster object the caller holds, or None
    call,       \* the last operation called: [op, arg]
    result,     \* its outcome
    log         \* the network methods the last clusterGraph call invoked

vars == <<chargers, distance, graph, tree, call, result, log>>

(***************************************************************************)
(* Bounds of the model.                                                    *)
(***************************************************************************)
NumStations == 4
MaxLen == 4

(***************************************************************************)
(* Python values and outcomes.                                             *)
(***************************************************************************)
None == [kind |-> "none"]

PyList(s) == [kind |-> "list", items |-> s]

PyTuple(s) == [kind |-> "tuple", items |-> s]

Return(v) == [status |-> "return", value |-> v]

Raise(e) == [status |-> "raise", exc |-> e]

\* Stations lie on the equator; stations 1 and 2 coincide (longitude 0),
\* the others are at 5, 6, 7, ... degrees of longitude: with a threshold
\* of 300 km stations 1, 2 are close, stations 3, 4 are close (222 km), and
\* the two pairs are 1112 km and more apart.
StationLongitude(i) == IF i <= 2 THEN 0 ELSE i + 2

ChargeStation(i) ==
    [kind |-> "station", id |-> i, latitude |-> 0, longitude |-> StationLongitude(i)]

Stations == {ChargeStation(i) : i \in 1..NumStations}

Thresholds == {0, 300}

\* What Python can iterate over (for ... in x, list += x, list.extend(x)):
\* lists and tuples; a TreeCluster defines no __iter__, None and a
\* ChargeStation record are not iterable.  (Were a ChargeStation iterable,
\* self._subcluster += TreeCluster(...) would still raise TypeError.)
Iterable(v) == v.kind \in {"list", "tuple"}

\* list.__iadd__ : lst += x  (lst a sequence of values)
IAdd(lst, x) == IF Iterable(x) THEN Return(lst \o x.items) ELSE Raise("TypeError")

(***************************************************************************)
(* Distance.                                                               *)
(***************************************************************************)
EARTH_RADIUS_KM == 6371

Abs(x) == IF x < 0 THEN -x ELSE x

\* 6371 * acos(sin(lat1')sin(lat2') + cos(lat1')cos(lat2')cos|long1' - long2'|)
\* with x' = (2*pi/180) * x.  For latitudes 0 the central angle is
\* |long1' - long2'| (while it is at most pi), so the result is
\* 6371 * (2*pi/180) * |long1 - long2|, here in whole km with pi = 355/113.
longitude_and_latitude_to_km(long1, lat1, long2, lat2) ==
    (EARTH_RADIUS_KM * 2 * 355 * Abs(long1 - long2)) \div (180 * 113)

chargers_to_km(charger1, charger2) ==
    longitude_and_latitude_to_km(charger1.longitude, charger1.latitude,
                                 charger2.longitude, charger2.latitude)

(***************************************************************************)
(* find_furthest_charge_stations                                           *)
(***************************************************************************)
\* The two nested loops over i < j: the pair is replaced only by a strictly
\* larger distance.  st = [max_distance, point1, point2].
RECURSIVE FurthestScan(_, _, _, _)
FurthestScan(items, i, j, st) ==
    IF i > Len(items) THEN st
    ELSE IF j > Len(items) THEN FurthestScan(items, i + 1, i + 2, st)
    ELSE LET d == chargers_to_km(items[i], items[j])
         IN  IF d > st.max_distance
             THEN FurthestScan(items, i, j + 1,
                      [max_distance |-> d, point1 |-> items[i], point2 |-> items[j]])
             ELSE FurthestScan(items, i, j + 1, st)

FurthestPair(items) ==
    LET st == FurthestScan(items, 1, 2,
                  [max_distance |-> 0, point1 |-> items[1], point2 |-> items[2]])
    IN  PyTuple(<<st.point1, st.point2>>)

\* The guard written n <= 2 instead of n < 2.
find_furthest_guard_off_by_one(chargers_) ==
    IF ~Iterable(chargers_) THEN Raise("TypeError")
    ELSE IF Len(chargers_.items) <= 2 THEN Raise("IndexError")
    ELSE Return(FurthestPair(chargers_.items))

find_furthest_charge_stations(chargers_) ==
    IF ~Iterable(chargers_) THEN Raise("TypeError")      \* len() of a non-sequence
    ELSE IF Len(chargers_.items) < 2 THEN Raise("IndexError")
    ELSE Return(FurthestPair(chargers_.items))

(***************************************************************************)
(* find_lowest_average_distance                                            *)
(***************************************************************************)
RECURSIVE TotalDistance(_, _, _)
\* total_distance of candidate i: the sum over j # i, j = k..n
TotalDistance(items, i, k) ==
    IF k > Len(items) THEN 0
    ELSE (IF k # i THEN chargers_to_km(items[i], items[k]) ELSE 0)
         + TotalDistance(items, i, k + 1)

\* The outer loop from candidate i on.  Every average has the same divisor
\* len(chargers) - 1 > 0, so averages compare as their totals do;
\* st = [inf, total, min_index], inf standing for float('inf').
RECURSIVE LowestScan(_, _, _)
LowestScan(items, i, st) ==
    IF i > Len(items) THEN st
    ELSE LET total == TotalDistance(items, i, 1)
         IN  IF st.inf \/ total < st.total
             THEN LowestScan(items, i + 1, [inf |-> FALSE, total |-> total, min_index |-> i])
             ELSE LowestScan(items, i + 1, st)

find_lowest_average_distance(chargers_) ==
    IF ~Iterable(chargers_) THEN Raise("TypeError")      \* len() of a non-sequence
    ELSE
    LET items == chargers_.items
        n == Len(items)
    IN  IF n = 0 THEN Raise("IndexError")             \* chargers[0] of an empty list
        ELSE IF n - 1 = 0 THEN Raise("ZeroDivisionError")  \* total_distance / 0
        ELSE Return(items[LowestScan(items, 1, [inf |-> TRUE, total |-> 0, min_index |-> 1]).min_index])

(***************************************************************************)
(* class TreeCluster                                                       *)
(***************************************************************************)
Tree(centroid, complete, subcluster) ==
    [kind |-> "tree", centroid |-> centroid, complete |-> complete,
     subcluster |-> subcluster]

\* for i in self._subcluster: i._complete = True
MarkComplete(subcluster) ==
    [k \in 1..Len(subcluster) |-> [subcluster[k] EXCEPT !.complete = TRUE]]

\* all({chargers_to_km(c1._centroid, c2._centroid) < distance
\*      for c1 in self._subcluster for c2 in self._subcluster})
AllWithin(subcluster, distance_) ==
    \A a, b \in 1..Len(subcluster) :
        chargers_to_km(subcluster[a].centroid, subcluster[b].centroid) < distance_

\* The bucket loop of create_subclusters from child k on;
\* st = [new_cluster1, new_cluster2].  new_clusterN += i is list.__iadd__
\* with a TreeCluster on the right.
RECURSIVE BucketLoop(_, _, _, _)
BucketLoop(subcluster, reference_stations, k, st) ==
    IF k > Len(subcluster) THEN Return(st)
    ELSE LET i == subcluster[k]
         IN  IF chargers_to_km(i.centroid, reference_stations.items[1])
                  < chargers_to_km(i.centroid, reference_stations.items[2])
             THEN LET a == IAdd(st.new_cluster1, i)
                  IN  IF a.status = "raise" THEN a
                      ELSE BucketLoop(subcluster, reference_stations, k + 1,
                                      [st EXCEPT !.new_cluster1 = a.value])
             ELSE LET a == IAdd(st.new_cluster2, i)
                  IN  IF a.status = "raise" THEN a
                      ELSE BucketLoop(subcluster, reference_stations, k + 1,
                                      [st EXCEPT !.new_cluster2 = a.value])

RECURSIVE TreeCluster(_, _)
RECURSIVE create_subclusters(_, _)
RECURSIVE InitLoop(_, _, _, _)

\* for i in stations: self._subcluster += TreeCluster(distance, i)
InitLoop(distance_, items, k, subcluster) ==
    IF k > Len(items) THEN Return(subcluster)
    ELSE LET t == TreeCluster(distance_, items[k])
         IN  IF t.status = "raise" THEN t
             ELSE LET a == IAdd(subcluster, t.value)
                  IN  IF a.status = "raise" THEN a
                      ELSE InitLoop(distance_, items, k + 1, a.value)

\* create_subclusters on the object self; returns the object as it is left.
create_subclusters(self, distance_) ==
    IF Len(self.subcluster) < 2 THEN
        Return([self EXCEPT !.subcluster = MarkComplete(self.subcluster)])
    ELSE IF \E k \in 1..Len(self.subcluster) : self.subcluster[k].centroid.kind # "station"
    THEN Raise("AttributeError")                     \* None has no longitude
    ELSE IF AllWithin(self.subcluster, distance_) THEN
        Return([self EXCEPT !.subcluster = MarkComplete(self.subcluster)])
    ELSE
    LET cs == [k \in 1..Len(self.subcluster) |-> self.subcluster[k].centroid]
        refs == find_furthest_charge_stations(PyList(cs))
    IN  IF refs.status = "raise" THEN refs
        ELSE LET b == BucketLoop(self.subcluster, refs.value, 1,
                                 [new_cluster1 |-> <<>>, new_cluster2 |-> <<>>])
             IN  IF b.status = "raise" THEN b
                 ELSE LET t1 == TreeCluster(distance_, PyList(b.value.new_cluster1))
                      IN  IF t1.status = "raise" THEN t1
                          ELSE LET t2 == TreeCluster(distance_, PyList(b.value.new_cluster2))
                               IN  IF t2.status = "raise" THEN t2
                                   ELSE Return([self EXCEPT
                                            !.subcluster = <<t1.value, t2.value>>])

\* TreeCluster.__init__(self, distance, stations)
TreeCluster(distance_, stations) ==
    IF stations = None THEN
        create_subclusters(Tree(None, FALSE, <<>>), distance_)
    ELSE IF ~Iterable(stations) THEN Raise("TypeError")   \* for i in stations
    ELSE LET sub == InitLoop(distance_, stations.items, 1, <<>>)
         IN  IF sub.status = "raise" THEN sub
             ELSE LET c == find_lowest_average_distance(stations)
                  IN  IF c.status = "raise" THEN c
                      ELSE create_subclusters(Tree(c.value, FALSE, sub.value), distance_)

is_empty(self) == self.centroid = None

\* return_val.extend(...) over the children from child k on
RECURSIVE get_cluster_free_list(_)
RECURSIVE ExtendLoop(_, _, _)
ExtendLoop(subcluster, k, return_val) ==
    IF k > Len(subcluster) THEN Return(return_val)
    ELSE LET r == get_cluster_free_list(subcluster[k])
         IN  IF r.status = "raise" THEN r
             ELSE IF ~Iterable(r.value) THEN Raise("TypeError")   \* extend(None)
             ELSE ExtendLoop(subcluster, k + 1, return_val \o r.value.items)

\* The else branch builds return_val and ends without a return statement:
\* the call evaluates to None.
get_cluster_free_list(self) ==
    IF self.complete THEN Return(PyList(<<self.centroid>>))
    ELSE LET r == ExtendLoop(self.subcluster, 1, <<>>)
         IN  IF r.status = "raise" THEN r ELSE Return(None)

(***************************************************************************)
(* The ChargeNetwork collaborator (classes.ChargeNetwork): a list of       *)
(* stations and a set of connections between them.                         *)
(***************************************************************************)
get_charge_stations(g) == PyList(g.stations)

clear_graph(g) == [stations |-> <<>>, edges |-> {}]

add_charge_station(g, station, connection) ==
    [stations |-> Append(g.stations, station),
     edges |-> IF connection = None THEN g.edges
               ELSE g.edges \cup {{station, connection}}]

LogEntry(op, station, connection) ==
    [op |-> op, station |-> station, connection |-> connection]

(***************************************************************************)
(* clusterGraph                                                            *)
(***************************************************************************)
\* for i in <list>: graph.add_charge_station(i, None), from item k on
RECURSIVE AddLoop(_, _, _, _)
AddLoop(items, k, g, lg) ==
    IF k > Len(items) THEN [result |-> Return(None), graph |-> g, log |-> lg]
    ELSE AddLoop(items, k + 1, add_charge_station(g, items[k], None),
                 Append(lg, LogEntry("add_charge_station", items[k], None)))

\* The outcome of the call, the network as it is left, and the network
\* methods invoked, in order.
clusterGraph(g, distance_) ==
    LET lg1 == <<LogEntry("get_charge_stations", None, None)>>
        cluster_tree == TreeCluster(distance_, get_charge_stations(g))
    IN  IF cluster_tree.status = "raise"
        THEN [result |-> cluster_tree, graph |-> g, log |-> lg1]
        ELSE LET g2 == clear_graph(g)
                 lg2 == Append(lg1, LogEntry("clear_graph", None, None))
                 l == get_cluster_free_list(cluster_tree.value)
             IN  IF l.status = "raise"
                 THEN [result |-> l, graph |-> g2, log |-> lg2]
                 ELSE IF ~Iterable(l.value)            \* for i in None
                 THEN [result |-> Raise("TypeError"), graph |-> g2, log |-> lg2]
                 ELSE AddLoop(l.value.items, 1, g2, lg2)

(***************************************************************************)
(* The state machine: a caller with a station list, a threshold and a      *)
(* network calls the operations of the module.                             *)
(***************************************************************************)
\* The sequences without repetition of at most MaxLen stations
StationLists ==
    UNION {{s \in [1..n -> Stations] : \A a, b \in 1..n : a # b => s[a] # s[b]}
           : n \in 0..MaxLen}

\* The connections of a network holding the stations s: none, or a chain
ChainEdges(s) == {{s[k], s[k + 1]} : k \in 1..(Len(s) - 1)}

Call(op, arg) == [op |-> op, arg |-> arg]

Init ==
    /\ \E s \in StationLists :
          /\ chargers = PyList(s)
          /\ \E e \in {{}, ChainEdges(s)} : graph = [stations |-> s, edges |-> e]
    /\ distance \in Thresholds
    /\ tree = None
    /\ call = Call("none", None)
    /\ result = Return(None)
    /\ log = <<>>

\* t = TreeCluster(distance)  or  t = TreeCluster(distance, chargers)
DoTreeCluster ==
    \E stations \in {None, chargers} :
        LET r == TreeCluster(distance, stations)
        IN  /\ call' = Call("TreeCluster", stations)
            /\ result' = r
            /\ tree' = IF r.status = "return" THEN r.value ELSE tree
            /\ UNCHANGED <<chargers, distance, graph, log>>

\* t.create_subclusters(distance)
DoCreateSubclusters ==
    /\ tree # None
    /\ LET r == create_subclusters(tree, distance)
       IN  /\ call' = Call("create_subclusters", tree)
           /\ result' = IF r.status = "return" THEN Return(None) ELSE r
           /\ tree' = IF r.status = "return" THEN r.value ELSE tree
    /\ UNCHANGED <<chargers, distance, graph, log>>

\* t.is_empty()
DoIsEmpty ==
    /\ tree # None
    /\ call' = Call("is_empty", tree)
    /\ result' = Return(is_empty(tree))
    /\ UNCHANGED <<chargers, distance, graph, tree, log>>

\* t.get_cluster_free_list()
DoGetClusterFreeList ==
    /\ tree # None
    /\ call' = Call("get_cluster_free_list", tree)
    /\ result' = get_cluster_free_list(tree)
    /\ UNCHANGED <<chargers, distance, graph, tree, log>>

\* find_furthest_charge_stations(chargers)
DoFindFurthest ==
    /\ call' = Call("find_furthest_charge_stations", chargers)
    /\ result' = find_furthest_charge_stations(chargers)
    /\ UNCHANGED <<chargers, distance, graph, tree, log>>

\* find_lowest_average_distance(chargers)
DoFindLowestAverage ==
    /\ call' = Call("find_lowest_average_distance", chargers)
    /\ result' = find_lowest_average_distance(chargers)
    /\ UNCHANGED <<chargers, distance, graph, tree, log>>

\* clusterGraph(graph, distance)
DoClusterGraph ==
    /\ LET r == clusterGraph(graph, distance)
       IN  /\ call' = Call("clusterGraph", graph)
           /\ result' = r.result
           /\ graph' = r.graph
           /\ log' = r.log
    /\ UNCHANGED <<chargers, distance, tree>>

Next ==
    \/ DoTreeCluster
    \/ DoCreateSubclusters
    \/ DoIsEmpty
    \/ DoGetClusterFreeList
    \/ DoFindFurthest
    \/ DoFindLowestAverage
    \/ DoClusterGraph

Spec == Init /\ [][Next]_vars

(***************************************************************************)
(* Vocabulary of the properties.                                           *)
(***************************************************************************)
SetOf(seq) == {seq[k] : k \in 1..Len(seq)}

IsPointList(v) ==
    /\ v.kind = "list"
    /\ \A k \in 1..Len(v.items) : v.items[k].kind = "station"

\* collect(build(stations, threshold)) as the code computes it
CollectOfBuild(distance_, stations) ==
    LET t == TreeCluster(distance_, stations)
    IN  IF t.status = "raise" THEN t ELSE get_cluster_free_list(t.value)

\* Some pair of the points (a point with itself included, as the code's
\* test includes it) is not closer than the threshold: the split is due.
SplitNeeded(items, distance_) ==
    /\ Len(items) >= 2
    /\ \E a, b \in 1..Len(items) : ~(chargers_to_km(items[a], items[b]) < distance_)

\* The points at the leaves of a tree
RECURSIVE LeafPoints(_)
LeafPoints(node) ==
    IF node.subcluster = <<>>
    THEN (IF node.centroid = None THEN {} ELSE {node.centroid})
    ELSE UNION {LeafPoints(node.subcluster[k]) : k \in 1..Len(node.subcluster)}

\* What collect is specified to return: [centroid] for a final node, else
\* the concatenation of what the children give
RECURSIVE ExpectedCollect(_)
RECURSIVE ExpectedConcat(_, _)
ExpectedConcat(subcluster, k) ==
    IF k > Len(subcluster) THEN <<>>
    ELSE ExpectedCollect(subcluster[k]) \o ExpectedConcat(subcluster, k + 1)

ExpectedCollect(node) ==
    IF node.complete THEN <<node.centroid>> ELSE ExpectedConcat(node.subcluster, 1)

\* Every node has 0 or 2 children, and a node with children is not final
RECURSIVE WellShaped(_)
WellShaped(node) ==
    /\ Len(node.subcluster) \in {0, 2}
    /\ (node.subcluster # <<>> => ~node.complete)
    /\ \A k \in 1..Len(node.subcluster) : WellShaped(node.subcluster[k])

BuildCalledOnList == call.op = "TreeCluster" /\ call.arg.kind = "list"

(***************************************************************************)
(* The claims.                                                             *)
(***************************************************************************)

\* C1: for a non-empty point list, collect(build(points, threshold)) holds
\* exactly one representative per tight group: it is a list of input points, no two of them closer than
\* the threshold, every input point is a representative or closer than the
\* threshold to one; and for four points forming two close pairs (each pair
\* closer than the threshold, every cross-pair distance at least the
\* threshold) it has exactly 2 points, one from each pair.
C1_OneRepresentativePerTightGroup ==
    (BuildCalledOnList /\ call.arg.items # <<>>) =>
        LET pts == call.arg.items
            r == CollectOfBuild(distance, call.arg)
            Close(x, y) == chargers_to_km(x, y) < distance
        IN  /\ r.status = "return"
            /\ IsPointList(r.value)
            /\ LET reps == r.value.items
               IN  /\ SetOf(reps) \subseteq SetOf(pts)
                   /\ \A a, b \in 1..Len(reps) : a # b => ~Close(reps[a], reps[b])
                   /\ \A x \in SetOf(pts) : \E y \in SetOf(reps) : x = y \/ Close(x, y)
                   /\ \A a, b, c, d \in 1..Len(pts) :
                        ( /\ Len(pts) = 4 /\ {a, b, c, d} = 1..4
                          /\ Close(pts[a], pts[b]) /\ Close(pts[c], pts[d])
                          /\ \A x \in {pts[a], pts[b]} : \A y \in {pts[c], pts[d]} :
                                ~Close(x, y) )
                        => /\ Len(reps) = 2
                           /\ SetOf(reps) \cap {pts[a], pts[b]} # {}
                           /\ SetOf(reps) \cap {pts[c], pts[d]} # {}

\* C2: get_cluster_free_list returns a list for every node, [centroid] for
\* a final node and otherwise the concatenation in child order of what the
\* children give (the empty list for a non-final node without children);
\* never None.
C2_CollectReturnsSequence ==
    call.op = "get_cluster_free_list" =>
        /\ result.status = "return"
        /\ result.value = PyList(ExpectedCollect(call.arg))

\* C3: after clusterGraph(graph, threshold) the network's stations are
\* exactly collect(build(list_stations(), threshold)) of the stations it
\* held before, it holds no connections, and the network methods were
\* invoked in the order: list the stations, clear, then only add_station
\* calls with no connection.
C3_ClusterGraphReplacesStations ==
    call.op = "clusterGraph" =>
        LET reps == CollectOfBuild(distance, get_charge_stations(call.arg))
        IN  /\ result.status = "return"
            /\ reps.status = "return"
            /\ IsPointList(reps.value)
            /\ SetOf(graph.stations) = SetOf(reps.value.items)
            /\ graph.edges = {}
            /\ Len(log) >= 2
            /\ log[1].op = "get_charge_stations"
            /\ log[2].op = "clear_graph"
            /\ \A k \in 3..Len(log) :
                  log[k].op = "add_charge_station" /\ log[k].connection = None

\* C4: build(points, threshold) runs to completion whenever the split is
\* due (threshold <= 0 and coincident points included), and both buckets of
\* the split are non-empty: the node gets two children, each over at least
\* one and strictly fewer points than the node.
C4_BuildTerminatesBySplitting ==
    (BuildCalledOnList /\ SplitNeeded(call.arg.items, distance)) =>
        /\ result.status = "return"
        /\ Len(result.value.subcluster) = 2
        /\ \A k \in 1..2 :
              LET n == Cardinality(LeafPoints(result.value.subcluster[k]))
              IN  n >= 1 /\ n < Len(call.arg.items)

\* C5: build on fewer than 2 points completes without error and returns a
\* leaf without children and is_final = true, whose centroid is empty for
\* the empty input and the point itself for a single point.
C5_BuildOnFewerThanTwoPoints ==
    (BuildCalledOnList /\ Len(call.arg.items) < 2) =>
        /\ result.status = "return"
        /\ result.value.subcluster = <<>>
        /\ result.value.complete
        /\ result.value.centroid =
              (IF call.arg.items = <<>> THEN None ELSE call.arg.items[1])

\* C6: find_lowest_average_distance on a list of exactly one point returns
\* that point and raises no error.
C6_CentroidOfSingleton ==
    (call.op = "find_lowest_average_distance" /\ Len(call.arg.items) = 1) =>
        result = Return(call.arg.items[1])

\* C7: find_furthest_charge_stations on a list of 0 or 1 points fails with
\* the insufficient-points error (IndexError) and returns no pair; on 2 or
\* more points it never raises that error.
C7_FurthestPairInsufficientPoints ==
    call.op = "find_furthest_charge_stations" =>
        IF Len(call.arg.items) < 2
        THEN result = Raise("IndexError")
        ELSE result # Raise("IndexError")

\* C7 witness: the function was called on one point and raised IndexError
C7_Witness ==
    /\ call.op = "find_furthest_charge_stations"
    /\ Len(call.arg.items) = 1
    /\ result = Raise("IndexError")

\* C8: re-clustering is idempotent: for a non-empty point list P, with
\* R = collect(build(P, t)), collect(build(R, t)) completes without error
\* and is the same set of points as R.
C8_ReclusteringIdempotent ==
    (BuildCalledOnList /\ call.arg.items # <<>>) =>
        LET r == CollectOfBuild(distance, call.arg)
        IN  /\ r.status = "return"
            /\ IsPointList(r.value)
            /\ LET r2 == CollectOfBuild(distance, r.value)
               IN  /\ r2.status = "return"
                   /\ IsPointList(r2.value)
                   /\ SetOf(r2.value.items) = SetOf(r.value.items)

\* C9: when the split is due, every child goes to exactly one of the two
\* buckets, that of the nearer of the two reference (furthest-pair)
\* centroids, a child equidistant from both going to the first one's.
C9_SplitByNearestReference ==
    (BuildCalledOnList /\ SplitNeeded(call.arg.items, distance)) =>
        LET pts == call.arg.items
            refs == FurthestPair(pts).items
            bucket1 == {x \in SetOf(pts) :
                           chargers_to_km(x, refs[1]) <= chargers_to_km(x, refs[2])}
            bucket2 == SetOf(pts) \ bucket1
        IN  /\ result.status = "return"
            /\ Len(result.value.subcluster) = 2
            /\ LeafPoints(result.value.subcluster[1]) = bucket1
            /\ LeafPoints(result.value.subcluster[2]) = bucket2

\* C10: build on two or more points returns a tree, and in it every node
\* has 0 or exactly 2 children and every node with children has
\* is_final = false.
C10_ZeroOrTwoChildren ==
    (BuildCalledOnList /\ Len(call.arg.items) >= 2) =>
        /\ result.status = "return"
        /\ WellShaped(result.value)

====
